---- MODULE Spec2Model ----
(***************************************************************************)
(* PyAtBSA statistical core (modules/core_bsa.py): feature computation,    *)
(* per-chromosome smoothing with mirrored edges, bootstrap cutoff          *)
(* estimation and cutoff labelling, as a state machine over one analysis   *)
(* line's variant table.                                                   *)
(*                                                                         *)
(* Floats are modelled in fixed point: a finite float x is the integer     *)
(* round(x * Unit); NaN and +-inf are separate kinds, with numpy's rules.  *)
(***************************************************************************)
EXTENDS Integers, Sequences, FiniteSets, Bags, TLC

(***************************************************************************)
(* Bounds of the model.                                                    *)
(***************************************************************************)
MaxDepth == 3
MaxVariants == 20050
MaxRows == 5
MaxEdge == 2
BootRows == 2
MaxIterations == 2
NumWorkers == 2
LabelRows == 2
NumLines == 2
LineRows == 3
ClipRows == 5
ClipEdge == 6

(***************************************************************************)
(* State.                                                                  *)
(***************************************************************************)
VARIABLES
    vcf_df,               \* line.vcf_df: sequence of rows (records, one field per column)
    pc,                   \* stage of run_pipeline the line is at
    np_errmode,           \* numpy's process-wide floating-point error mode (np.seterr)
    smooth_edges_bounds,  \* bsa_vars.smooth_edges_bounds
    loess_span,           \* bsa_vars.loess_span, a rational [num, den]
    n,                    \* calculate_empirical_cutoffs: n = len(vcf_df_position)
    frac,                 \* calculate_empirical_cutoffs: frac, a rational [num, den]
    args,                 \* calculate_empirical_cutoffs: the copied columns handed to every trial
    results,              \* pool.starmap: per-trial result, or "pending"
    pools,                \* the four pooled lists sm_*_lst
    cutoffs,              \* (gs_cutoff, rs_cutoff, rsg_cutoff, rsg_y_cutoff)
    shuffle_iterations,   \* bsa_vars.shuffle_iterations
    start_method,         \* how multiprocessing starts the pool's workers
    workers,              \* per pool worker: the random stream it reads and how far it has read
    streams,              \* per random stream: the draws made from it so far
    lines,                \* bsa_vars.lines: the names of the lines to analyse, in order
    line,                 \* position in bsa_vars.lines of the line run_pipeline is at
    likely_cands,         \* the likely-candidates table saved for the line
    failure               \* what self.log.fail was called with: the message's text and
                          \* the values formatted into it

vars == <<vcf_df, pc, np_errmode, smooth_edges_bounds, loess_span, n, frac,
          args, results, pools, cutoffs, shuffle_iterations, start_method,
          workers, streams, lines, line, likely_cands, failure>>

\* nothing has failed
NoFailure == [text |-> ""]

(***************************************************************************)
(* Fixed-point floats.                                                     *)
(***************************************************************************)
Unit == 10^4

Fin(v) == [k |-> "fin", v |-> v]
NaN == [k |-> "nan", v |-> 0]
PosInf == [k |-> "inf", v |-> 1]
NegInf == [k |-> "inf", v |-> -1]

IsFinite(x) == x.k = "fin"
IsNaN(x) == x.k = "nan"

Abs(a) == IF a < 0 THEN -a ELSE a
Sgn(a) == IF a < 0 THEN -1 ELSE IF a > 0 THEN 1 ELSE 0

RECURSIVE GCD(_, _)
GCD(a, b) == IF b = 0 THEN a ELSE GCD(b, a % b)

\* round(a / b) for b > 0, half away from zero
RoundDiv(a, b) == Sgn(a) * ((2 * Abs(a) + b) \div (2 * b))

\* floor(a * b / Unit) for a, b >= 0, without leaving 32 bits
MulUnit(a, b) ==
    LET ah == a \div Unit
        al == a % Unit
        bh == b \div Unit
        bl == b % Unit
    IN  ah * bh * Unit + ah * bl + al * bh + (al * bl) \div Unit

\* numpy true division of two integers: x/0 is nan for x = 0, +-inf otherwise
TrueDivide(a, b) ==
    IF b # 0 THEN Fin(RoundDiv(a * Unit, b))
    ELSE IF a = 0 THEN NaN
    ELSE IF a > 0 THEN PosInf ELSE NegInf

FNeg(x) == IF x.k = "nan" THEN NaN ELSE [k |-> x.k, v |-> -x.v]

FAdd(x, y) ==
    IF x.k = "nan" \/ y.k = "nan" THEN NaN
    ELSE IF x.k = "inf" /\ y.k = "inf" THEN (IF x.v = y.v THEN x ELSE NaN)
    ELSE IF x.k = "inf" THEN x
    ELSE IF y.k = "inf" THEN y
    ELSE Fin(x.v + y.v)

FSub(x, y) == FAdd(x, FNeg(y))

FMul(x, y) ==
    IF x.k = "nan" \/ y.k = "nan" THEN NaN
    ELSE IF x.k = "inf" \/ y.k = "inf"
         THEN (IF x.v = 0 \/ y.v = 0 THEN NaN
               ELSE IF Sgn(x.v) = Sgn(y.v) THEN PosInf ELSE NegInf)
    ELSE Fin(Sgn(x.v) * Sgn(y.v) * MulUnit(Abs(x.v), Abs(y.v)))

\* integer times float (2 * o * log(...))
FScale(m, x) ==
    IF x.k = "nan" THEN NaN
    ELSE IF x.k = "inf"
         THEN (IF m = 0 THEN NaN ELSE IF Sgn(m) = Sgn(x.v) THEN PosInf ELSE NegInf)
    ELSE Fin(m * x.v)

\* x > y on floats: False when either is nan
FGt(x, y) ==
    /\ x.k # "nan"
    /\ y.k # "nan"
    /\ \/ x.k = "fin" /\ y.k = "fin" /\ x.v > y.v
       \/ x.k = "inf" /\ x.v = 1 /\ y # PosInf
       \/ y.k = "inf" /\ y.v = -1 /\ x # NegInf

\* round(ln(j) * Unit) for j = 1..100
LnTable == <<
    0, 6931, 10986, 13863, 16094, 17918, 19459, 20794, 21972, 23026,
    23979, 24849, 25649, 26391, 27081, 27726, 28332, 28904, 29444, 29957,
    30445, 30910, 31355, 31781, 32189, 32581, 32958, 33322, 33673, 34012,
    34340, 34657, 34965, 35264, 35553, 35835, 36109, 36376, 36636, 36889,
    37136, 37377, 37612, 37842, 38067, 38286, 38501, 38712, 38918, 39120,
    39318, 39512, 39703, 39890, 40073, 40254, 40431, 40604, 40775, 40943,
    41109, 41271, 41431, 41589, 41744, 41897, 42047, 42195, 42341, 42485,
    42627, 42767, 42905, 43041, 43175, 43307, 43438, 43567, 43694, 43820,
    43944, 44067, 44188, 44308, 44427, 44543, 44659, 44773, 44886, 44998,
    45109, 45218, 45326, 45433, 45539, 45643, 45747, 45850, 45951, 46052 >>

\* np.log of the quotient p/q of two integers, p >= 0, q > 0
LogQuot(p, q) ==
    IF p = 0 THEN NegInf
    ELSE LET g == GCD(p, q)
         IN  Fin(LnTable[p \div g] - LnTable[q \div g])

(***************************************************************************)
(* FeatureProduction._delta_snp_array and _g_statistic_array, for one      *)
(* element of the four read-depth arrays.                                  *)
(***************************************************************************)
delta_snp_guarded(wtr, wta, mur, mua) ==
    IF wtr + wta = 0 \/ mur + mua = 0 THEN Fin(0)
    ELSE FSub(TrueDivide(wtr, wtr + wta), TrueDivide(mur, mur + mua))

delta_snp_sum(wtr, wta, mur, mua) ==
    FAdd(TrueDivide(wtr, wtr + wta), TrueDivide(mur, mur + mua))

delta_snp_array(wtr, wta, mur, mua) ==
    FSub(TrueDivide(wtr, wtr + wta), TrueDivide(mur, mur + mua))

\* np.where(zero_mask, row * col / denominator, 0), kept as the exact quotient
ExpectedCount(zero_mask, row, col, denominator) ==
    IF zero_mask THEN [num |-> row * col, den |-> denominator]
    ELSE [num |-> 0, den |-> 1]

\* e1, e2, e3, e4
ExpectedCounts(wtr, wta, mur, mua) ==
    LET zero_mask == wtr + mur + wta + mua # 0
        denominator == wtr + mur + wta + mua
    IN  << ExpectedCount(zero_mask, wtr + mur, wtr + wta, denominator),
           ExpectedCount(zero_mask, wtr + mur, mur + mua, denominator),
           ExpectedCount(zero_mask, wta + mua, wtr + wta, denominator),
           ExpectedCount(zero_mask, wta + mua, mur + mua, denominator) >>

IsZero(e) == e.num = 0

\* the sign class of observed / expected: "nan" (0/0), "inf" (o/0), "zero", "pos"
ObsOverExp(o, e) ==
    IF IsZero(e) THEN (IF o = 0 THEN "nan" ELSE "inf")
    ELSE IF o = 0 THEN "zero" ELSE "pos"

\* 2 * o * np.log(o / e)
LlrValue(o, e) ==
    CASE ObsOverExp(o, e) = "nan"  -> NaN
      [] ObsOverExp(o, e) = "inf"  -> FScale(2 * o, PosInf)
      [] ObsOverExp(o, e) = "zero" -> FScale(2 * o, NegInf)
      [] ObsOverExp(o, e) = "pos"  -> FScale(2 * o, LogQuot(o * e.den, e.num))

llr_reversed(o, e) ==
    IF ObsOverExp(o, e) = "pos"
    THEN FScale(2 * o, LogQuot(e.num, o * e.den))
    ELSE Fin(0)

\* np.where(o / e > 0, 2 * o * np.log(o / e), 0.0)
llr(o, e) ==
    IF ObsOverExp(o, e) \in {"inf", "pos"} THEN LlrValue(o, e) ELSE Fin(0)

g_statistic_unguarded(wtr, wta, mur, mua) ==
    LET e == ExpectedCounts(wtr, wta, mur, mua)
    IN  FAdd(FAdd(FAdd(LlrValue(wtr, e[1]), LlrValue(mur, e[2])),
                  LlrValue(wta, e[3])), LlrValue(mua, e[4]))

g_statistic_zero_observed(wtr, wta, mur, mua) ==
    LET e == ExpectedCounts(wtr, wta, mur, mua)
    IN  IF wtr * wta * mur * mua = 0
        THEN Fin(0)
        ELSE FAdd(FAdd(FAdd(llr(wtr, e[1]), llr(mur, e[2])), llr(wta, e[3])),
                  llr(mua, e[4]))

ZeroGuard_first_count(e) == IsZero(e[1])

\* e1 * e2 * e3 * e4 == 0: a product of four floats that are each 0 or at
\* least 1 / (4 * max depth) is 0 exactly when a factor is
ZeroGuard(e) == \E i \in 1..4 : IsZero(e[i])

g_statistic_array(wtr, wta, mur, mua) ==
    LET e == ExpectedCounts(wtr, wta, mur, mua)
        llr1 == llr(wtr, e[1])
        llr2 == llr(mur, e[2])
        llr3 == llr(wta, e[3])
        llr4 == llr(mua, e[4])
    IN  IF ZeroGuard(e)
        THEN Fin(0)
        ELSE FAdd(FAdd(FAdd(llr1, llr2), llr3), llr4)

\* a division by zero happens in _delta_snp_array for this row
DividesByZero(r) == r.wt_ref + r.wt_alt = 0 \/ r.mu_ref + r.mu_alt = 0

\* the row with the columns ratio, G_S and RS_G set
WithFeatures(r) ==
    LET ratio == delta_snp_array(r.wt_ref, r.wt_alt, r.mu_ref, r.mu_alt)
        G_S == g_statistic_array(r.wt_ref, r.wt_alt, r.mu_ref, r.mu_alt)
    IN  [chrom |-> r.chrom, idx |-> r.idx, pos |-> r.pos,
         wt_ref |-> r.wt_ref, wt_alt |-> r.wt_alt,
         mu_ref |-> r.mu_ref, mu_alt |-> r.mu_alt,
         ratio |-> ratio, G_S |-> G_S, RS_G |-> FMul(ratio, G_S)]

(***************************************************************************)
(* FeatureProduction.calculate_delta_snp_and_g_statistic                   *)
(***************************************************************************)
calculate_delta_snp_and_g_statistic ==
    /\ pc = "loaded"
    /\ IF np_errmode = "raise" /\ \E i \in 1..Len(vcf_df) : DividesByZero(vcf_df[i])
       THEN \* FloatingPointError, caught: self.log.fail quits
            /\ pc' = "failed"
            /\ failure' = [text |-> "An error occurred during calculation: {e}",
                           e |-> "FloatingPointError"]
            /\ UNCHANGED <<vcf_df, np_errmode>>
       ELSE /\ vcf_df' = [i \in 1..Len(vcf_df) |-> WithFeatures(vcf_df[i])]
            /\ np_errmode' = "ignore"      \* np.seterr(all='ignore')
            /\ pc' = "features"
            /\ UNCHANGED failure
    /\ UNCHANGED <<lines, line, likely_cands>>
    /\ UNCHANGED <<smooth_edges_bounds, loess_span, n, frac, args, results,
                   pools, cutoffs, shuffle_iterations, start_method, workers,
                   streams>>

(***************************************************************************)
(* Sequences the way Python and pandas slice them.                         *)
(***************************************************************************)
Min(a, b) == IF a < b THEN a ELSE b
Max(a, b) == IF a > b THEN a ELSE b

Reverse(s) == [i \in 1..Len(s) |-> s[Len(s) + 1 - i]]

PySlice_no_clip(s, start, stop) ==
    IF start < 0 /\ Len(s) + start < 0 THEN <<>>
    ELSE LET len == Len(s)
             norm(i) == IF i < 0 THEN Max(0, len + i) ELSE Min(i, len)
         IN  SubSeq(s, norm(start) + 1, norm(stop))

\* s[start:stop] with 0-based, possibly negative, clipped bounds
PySlice(s, start, stop) ==
    LET len == Len(s)
        norm(i) == IF i < 0 THEN Max(0, len + i) ELSE Min(i, len)
    IN  SubSeq(s, norm(start) + 1, norm(stop))

Range(s) == {s[i] : i \in 1..Len(s)}

RECURSIVE Concat(_)
Concat(ss) == IF ss = <<>> THEN <<>> ELSE Head(ss) \o Concat(Tail(ss))

\* the values of a sequence in order of first appearance (Series.unique)
RECURSIVE Unique(_)
Unique(s) ==
    IF s = <<>> THEN <<>>
    ELSE LET init == Unique(SubSeq(s, 1, Len(s) - 1))
             last == s[Len(s)]
         IN  IF last \in Range(init) THEN init ELSE Append(init, last)

(***************************************************************************)
(* smoothing_function = sm.nonparametric.lowess(endog, exog, frac)[:, 1].  *)
(* What the code relies on is kept: rows with a non-finite endog are       *)
(* dropped, the result is ordered by exog, and each fitted value depends   *)
(* on the k = int(frac * rows) nearest rows.  The local weighted line is   *)
(* replaced by the mean of those k rows (at least one).                    *)
(***************************************************************************)
RECURSIVE SumOver(_, _)
SumOver(S, Y) ==
    IF S = {} THEN 0
    ELSE LET a == CHOOSE a \in S : TRUE
         IN  Y[a].v + SumOver(S \ {a}, Y)

Lowess(Y, X, span) ==
    LET valid == {i \in 1..Len(Y) : IsFinite(Y[i])}
        m == Cardinality(valid)
        before(a, b) == X[a] < X[b] \/ (X[a] = X[b] /\ a < b)
        order == [r \in 1..m |->
                    CHOOSE a \in valid :
                        Cardinality({b \in valid : before(b, a)}) = r - 1]
        k == Max(1, (span.num * m) \div span.den)
        closer(c, a, b) ==
            \/ Abs(X[a] - X[c]) < Abs(X[b] - X[c])
            \/ Abs(X[a] - X[c]) = Abs(X[b] - X[c]) /\ a < b
        nbrs(c) == {a \in valid : Cardinality({b \in valid : closer(c, b, a)}) < k}
        fit(c) == Fin(RoundDiv(SumOver(nbrs(c), Y), Cardinality(nbrs(c))))
    IN  [r \in 1..m |-> fit(order[r])]

(***************************************************************************)
(* FeatureProduction._fit_chr_facets and its _fit_single_chr               *)
(***************************************************************************)
Deltas_raw_positions(positions) == positions

\* deltas: the first position, then the gaps between neighbours
Deltas(positions) ==
    [i \in 1..Len(positions) |->
        IF i > 1 THEN positions[i] - positions[i - 1] ELSE positions[i]]

\* deltas_pos_inv + deltas + deltas_neg_inv
DeltasMirroredEnds(deltas, edge) ==
    PySlice(Reverse(deltas), -edge, -1) \o deltas \o PySlice(Reverse(deltas), 1, edge)

PseudoPos_no_running_sum(d) == d

\* psuedo_pos: 0, then the running sum of the mirrored deltas after the first
RECURSIVE PseudoPos(_)
PseudoPos(d) ==
    IF Len(d) = 0 THEN <<>>
    ELSE IF Len(d) = 1 THEN <<0>>
    ELSE LET init == PseudoPos(SubSeq(d, 1, Len(d) - 1))
         IN  Append(init, d[Len(d)] + init[Len(init)])

MirroredFacet_ends_swapped(df_chr, edge) ==
    PySlice(Reverse(df_chr), 1, edge) \o df_chr \o PySlice(Reverse(df_chr), -edge, -1)

\* pd.concat([df_chr_inv_neg, df_chr, df_chr_inv_pos]): rows keep their index labels
MirroredFacet(df_chr, edge) ==
    PySlice(Reverse(df_chr), -edge, -1) \o df_chr \o PySlice(Reverse(df_chr), 1, edge)

Column(df, name) == [i \in 1..Len(df) |-> df[i][name]]

WithFit(r, ratio_yhat, GS_yhat, RS_G_yhat) ==
    [chrom |-> r.chrom, idx |-> r.idx, pos |-> r.pos,
     wt_ref |-> r.wt_ref, wt_alt |-> r.wt_alt,
     mu_ref |-> r.mu_ref, mu_alt |-> r.mu_alt,
     ratio |-> r.ratio, G_S |-> r.G_S, RS_G |-> r.RS_G,
     ratio_yhat |-> ratio_yhat, GS_yhat |-> GS_yhat, RS_G_yhat |-> RS_G_yhat]

TrimEdges_padding_only(df, edge) == PySlice(df, edge - 1, Len(df) - (edge - 1))

TrimEdges_front_only(df, edge) == PySlice(df, edge, Len(df))

\* df_chr[smooth_edges_bounds:-smooth_edges_bounds]
TrimEdges(df, edge) == PySlice(df, edge, -edge)

\* ValueError of df_chr[column] = values when the lengths differ
LengthMismatch(values, index) ==
    [text |-> "Length of values ({}) does not match length of index ({})",
     values |-> values, index |-> index]

\* _fit_single_chr: [ok, df, e]; ok is FALSE when an exception e reaches
\* self.log.fail (a fitted column whose length differs from the frame's cannot
\* be assigned: the first such assignment raises)
FitSingleChr(df_chr, span, edge) ==
    LET psuedo_pos == PseudoPos(DeltasMirroredEnds(Deltas(Column(df_chr, "pos")), edge))
        padded == MirroredFacet(df_chr, edge)
        ratio_yhat == Lowess(Column(padded, "ratio"), psuedo_pos, span)
        GS_yhat == Lowess(Column(padded, "G_S"), psuedo_pos, span)
        RS_G_yhat == Lowess(Column(padded, "RS_G"), psuedo_pos, span)
        fits == /\ Len(psuedo_pos) = Len(padded)
                /\ Len(ratio_yhat) = Len(padded)
                /\ Len(GS_yhat) = Len(padded)
                /\ Len(RS_G_yhat) = Len(padded)
    IN  IF fits
        THEN [ok |-> TRUE,
              df |-> TrimEdges(
                        [i \in 1..Len(padded) |->
                            WithFit(padded[i], ratio_yhat[i], GS_yhat[i], RS_G_yhat[i])],
                        edge)]
        ELSE [ok |-> FALSE, df |-> <<>>,
              e |-> LengthMismatch(
                        IF Len(psuedo_pos) # Len(padded) THEN Len(psuedo_pos)
                        ELSE IF Len(ratio_yhat) # Len(padded) THEN Len(ratio_yhat)
                        ELSE IF Len(GS_yhat) # Len(padded) THEN Len(GS_yhat)
                        ELSE Len(RS_G_yhat),
                        Len(padded))]

\* vcf_df[vcf_df['chrom'] == c]
Facet(df, c) == LET Keep(r) == r.chrom = c IN SelectSeq(df, Keep)

\* _fit_chr_facets: one result per chromosome, in order of first appearance
FitChrFacets(df, span, edge) ==
    LET chr_facets == Unique(Column(df, "chrom"))
    IN  [c \in 1..Len(chr_facets) |-> FitSingleChr(Facet(df, chr_facets[c]), span, edge)]

\* FeatureProduction.fit_model
fit_model ==
    /\ pc = "filtered"
    /\ LET fitted == FitChrFacets(vcf_df, loess_span, smooth_edges_bounds)
           chr_facets == Unique(Column(vcf_df, "chrom"))
       IN  IF \E c \in 1..Len(fitted) : ~fitted[c].ok
           THEN \* the first facet that fails: self.log.fail (line 442) quits
                LET c == CHOOSE c \in 1..Len(fitted) :
                            ~fitted[c].ok /\ \A b \in 1..(c - 1) : fitted[b].ok
                IN  /\ pc' = "failed"
                    /\ failure' =
                        [text |-> "There was an error while smoothing chr:{chr} for {self.name}:{e}",
                         chr |-> chr_facets[c], name |-> lines[line], e |-> fitted[c].e]
                    /\ UNCHANGED vcf_df
           ELSE IF fitted = <<>>
           THEN \* pd.concat([]) raises: self.log.fail (line 460) quits
                /\ pc' = "failed"
                /\ failure' =
                    [text |-> "There was an error during LOESS smoothing of chromosome facets:{e}",
                     e |-> "No objects to concatenate"]
                /\ UNCHANGED vcf_df
           ELSE /\ vcf_df' = Concat([c \in 1..Len(fitted) |-> fitted[c].df])
                /\ pc' = "smoothed"
                /\ UNCHANGED failure
    /\ UNCHANGED <<lines, line, likely_cands>>
    /\ UNCHANGED <<np_errmode, smooth_edges_bounds, loess_span, n, frac, args,
                   results, pools, cutoffs, shuffle_iterations, start_method,
                   workers, streams>>

(***************************************************************************)
(* FeatureProduction.calculate_empirical_cutoffs: the subsample fraction.  *)
(***************************************************************************)
\* the rational num/den in lowest terms, den > 0
Rat(num, den) ==
    LET g == GCD(Abs(num), den)
    IN  [num |-> num \div g, den |-> den \div g]

RatLe(a, b) == a.num * b.den <= b.num * a.den

ManyVariants == 20000
FewVariants == 1000

\* np.interp(x, [xp0, xp1], [fp0, fp1]) for xp0 <= x <= xp1, fp0 and fp1 rationals
Interp(x, xp0, xp1, fp0, fp1) ==
    LET dnum == fp1.num * fp0.den - fp0.num * fp1.den
        dden == fp1.den * fp0.den
    IN  Rat(fp0.num * dden * (xp1 - xp0) + dnum * (x - xp0) * fp0.den,
            fp0.den * dden * (xp1 - xp0))

SubsampleFraction_reversed(nv) ==
    IF nv > ManyVariants THEN Rat(5, 100)
    ELSE IF nv < FewVariants THEN Rat(1, 1)
    ELSE Interp(nv, FewVariants, ManyVariants, Rat(5, 100), Rat(1, 1))

SubsampleFraction(nv) ==
    IF nv > ManyVariants THEN Rat(5, 100)
    ELSE IF nv < FewVariants THEN Rat(1, 1)
    ELSE Interp(nv, FewVariants, ManyVariants, Rat(1, 1), Rat(5, 100))

\* vcf_df[['pos']].copy(), vcf_df[['wt_ref', 'wt_alt']].copy() and
\* vcf_df[['mu_ref', 'mu_alt']].copy(), each row under its index label
ColumnCopies(df) ==
    [position |-> [i \in 1..Len(df) |-> [idx |-> df[i].idx, pos |-> df[i].pos]],
     wt |-> [i \in 1..Len(df) |->
                [idx |-> df[i].idx, wt_ref |-> df[i].wt_ref, wt_alt |-> df[i].wt_alt]],
     mu |-> [i \in 1..Len(df) |->
                [idx |-> df[i].idx, mu_ref |-> df[i].mu_ref, mu_alt |-> df[i].mu_alt]]]

\* lines 534-540: the three column copies, and n = len(vcf_df_position)
cutoffs_begin ==
    /\ pc = "smoothed"
    /\ args' = ColumnCopies(vcf_df)
    /\ n' = Len(vcf_df)
    /\ pc' = "counted"
    /\ UNCHANGED <<lines, line, likely_cands, failure>>
    /\ UNCHANGED <<vcf_df, np_errmode, smooth_edges_bounds, loess_span, frac,
                   results, pools, cutoffs, shuffle_iterations, start_method,
                   workers, streams>>

Pending == [status |-> "pending"]

\* Pool(): a forked worker inherits the parent's numpy random state, so every
\* worker reads the same stream from the same place; a spawned worker seeds its own
PoolWorkers(method) ==
    [w \in 1..NumWorkers |->
        [stream |-> IF method = "fork" THEN 1 ELSE w, pos |-> 0]]

\* lines 540-563: frac from n, one argument tuple per iteration, the pool
cutoffs_fraction ==
    /\ pc = "counted"
    /\ frac' = SubsampleFraction(n)
    /\ results' = [i \in 1..shuffle_iterations |-> Pending]
    /\ workers' = PoolWorkers(start_method)
    /\ streams' = [w \in 1..NumWorkers |-> <<>>]
    /\ pc' = "bootstrapping"
    /\ UNCHANGED <<lines, line, likely_cands, failure>>
    /\ UNCHANGED <<vcf_df, np_errmode, smooth_edges_bounds, loess_span, n,
                   args, pools, cutoffs, shuffle_iterations, start_method>>

(***************************************************************************)
(* FeatureProduction._empirical_cutoff: one bootstrap trial.               *)
(***************************************************************************)
\* DataFrame.sample(frac=frac) draws round(frac * len) rows (Python's round:
\* half to even)
SampleSize(len, f) ==
    LET q == (f.num * len) \div f.den
        r == (f.num * len) % f.den
    IN  IF 2 * r > f.den \/ (2 * r = f.den /\ q % 2 = 1) THEN q + 1 ELSE q

SampleIndices_with_replacement(len, size) == [1..size -> 1..len]

\* the row numbers a sample can consist of: no row twice
SampleIndices(len, size) ==
    {p \in [1..size -> 1..len] : \A i, j \in 1..size : p[i] = p[j] => i = j}

\* what one trial takes from the random stream: the three samples' rows
Draws(len, size) ==
    [P : SampleIndices(len, size), W : SampleIndices(len, size),
     M : SampleIndices(len, size)]

Take(df, p) == [i \in 1..Len(p) |-> df[p[i]]]

EmpiricalCutoff(position, wt, mu, f, span, draw) ==
    LET dfShPos == Take(position, draw.P)
        dfShwt == Take(wt, draw.W)
        dfShmu == Take(mu, draw.M)
        size == Len(dfShPos)
        smPos == Column(dfShPos, "pos")
        smGstat == [i \in 1..size |->
                      g_statistic_array(dfShwt[i].wt_ref, dfShwt[i].wt_alt,
                                        dfShmu[i].mu_ref, dfShmu[i].mu_alt)]
        smRatio == [i \in 1..size |->
                      delta_snp_array(dfShwt[i].wt_ref, dfShwt[i].wt_alt,
                                      dfShmu[i].mu_ref, dfShmu[i].mu_alt)]
        smRS_G == [i \in 1..size |-> FMul(smRatio[i], smGstat[i])]
    IN  [status |-> "done",
         dfShPos |-> dfShPos, dfShwt |-> dfShwt, dfShmu |-> dfShmu,
         smGstat |-> smGstat, smRatio |-> smRatio, smRS_G |-> smRS_G,
         smRS_G_y |-> Lowess(smRS_G, smPos, span)]

\* the draws the three .sample calls of worker w's next trial can make: the
\* next ones of the worker's random stream, which are already fixed when another
\* worker reading the same stream has read that far
NextDraws(w) ==
    LET sid == workers[w].stream
        at == workers[w].pos + 1
    IN  IF at <= Len(streams[sid]) THEN {streams[sid][at]}
        ELSE Draws(Len(args.position), SampleSize(Len(args.position), frac))

\* the random stream after worker w has made the draws `draw`
Drawn(w, draw) ==
    LET sid == workers[w].stream
    IN  IF workers[w].pos + 1 <= Len(streams[sid]) THEN streams
        ELSE [streams EXCEPT ![sid] = Append(@, draw)]

empirical_cutoff_in_place(w, i) ==
    /\ pc = "bootstrapping"
    /\ results[i].status = "pending"
    /\ \E draw \in NextDraws(w) :
            /\ streams' = Drawn(w, draw)
            /\ workers' = [workers EXCEPT ![w].pos = @ + 1]
            /\ results' = [results EXCEPT ![i] =
                            EmpiricalCutoff(args.position, args.wt, args.mu, frac,
                                            loess_span, draw)]
            /\ vcf_df' = Take(vcf_df, draw.P)
    /\ UNCHANGED <<lines, line, likely_cands, failure>>
    /\ UNCHANGED <<pc, np_errmode, smooth_edges_bounds, loess_span, n,
                   frac, args, pools, cutoffs, shuffle_iterations, start_method>>

\* pool.starmap: worker w runs trial i to its return
empirical_cutoff(w, i) ==
    /\ pc = "bootstrapping"
    /\ results[i].status = "pending"
    /\ \E draw \in NextDraws(w) :
            /\ streams' = Drawn(w, draw)
            /\ workers' = [workers EXCEPT ![w].pos = @ + 1]
            /\ results' = [results EXCEPT ![i] =
                            EmpiricalCutoff(args.position, args.wt, args.mu, frac,
                                            loess_span, draw)]
    /\ UNCHANGED <<lines, line, likely_cands, failure>>
    /\ UNCHANGED <<vcf_df, pc, np_errmode, smooth_edges_bounds, loess_span, n,
                   frac, args, pools, cutoffs, shuffle_iterations, start_method>>

Raised == [status |-> "raised"]

\* pool.starmap: worker w runs trial i, and the trial raises after its three
\* samples are drawn (smoothing_function raising, line 526); _empirical_cutoff
\* catches nothing, so the pool hands the exception back to starmap
empirical_cutoff_raises(w, i) ==
    /\ pc = "bootstrapping"
    /\ results[i].status = "pending"
    /\ \E draw \in NextDraws(w) :
            /\ streams' = Drawn(w, draw)
            /\ workers' = [workers EXCEPT ![w].pos = @ + 1]
            /\ results' = [results EXCEPT ![i] = Raised]
    /\ UNCHANGED <<lines, line, likely_cands, failure>>
    /\ UNCHANGED <<vcf_df, pc, np_errmode, smooth_edges_bounds, loess_span, n,
                   frac, args, pools, cutoffs, shuffle_iterations, start_method>>

(***************************************************************************)
(* calculate_empirical_cutoffs: pooling and percentiles.                   *)
(***************************************************************************)
\* np.percentile(a, q) with q = qnum/qden percent, linear interpolation
Percentile(a, qnum, qden) ==
    IF a = <<>> \/ \E i \in 1..Len(a) : ~IsFinite(a[i]) THEN NaN
    ELSE LET sorted == SortSeq(a, LAMBDA x, y : x.v < y.v)
             h == (Len(a) - 1) * qnum
             lo == h \div (100 * qden) + 1
             t == h % (100 * qden)
         IN  IF t = 0 THEN sorted[lo]
             ELSE Fin(sorted[lo].v
                      + ((sorted[lo + 1].v - sorted[lo].v) * t) \div (100 * qden))

\* [result[j] for result in results if result is not None], flattened as
\* np.percentile flattens it
Pooled(res, name) ==
    LET returned == SelectSeq(res, LAMBDA r : r.status = "done")
    IN  Concat([i \in 1..Len(returned) |-> returned[i][name]])

Cutoffs_rs_rsg_swapped(p) ==
    << Percentile(p.sm_g_stat_lst, 95, 1),
       Percentile(p.sm_ratio_scaled_g_lst, 95, 1),
       Percentile(p.sm_ratio_lst, 95, 1),
       Percentile(p.sm_ratio_scaled_g_y_lst, 9999, 100) >>

\* gs_cutoff, rs_cutoff, rsg_cutoff, rsg_y_cutoff
Cutoffs(p) ==
    << Percentile(p.sm_g_stat_lst, 95, 1),
       Percentile(p.sm_ratio_lst, 95, 1),
       Percentile(p.sm_ratio_scaled_g_lst, 95, 1),
       Percentile(p.sm_ratio_scaled_g_y_lst, 9999, 100) >>

AllReturned_some(res) == \E i \in 1..Len(res) : res[i].status # "pending"

\* pool.starmap returns, or raises, only when no trial is still running
AllReturned(res) == \A i \in 1..Len(res) : res[i].status # "pending"

StarmapRaises_never(res) == FALSE

\* pool.starmap re-raises in the parent what a trial raised in its worker
StarmapRaises(res) == \E i \in 1..Len(res) : res[i].status = "raised"

\* lines 564-587: starmap is over; the pooled lists and the percentiles, or
\* the except branch, whose self.log.fail quits
cutoffs_finish ==
    /\ pc = "bootstrapping"
    /\ AllReturned(results)
    /\ IF StarmapRaises(results)
       THEN /\ pc' = "failed"
            /\ failure' =
                [text |-> "Bootstrapping to generate empirical cutoffs failed:{e}",
                 e |-> "exception of the trial"]
            /\ UNCHANGED <<pools, cutoffs>>
       ELSE /\ pools' = [sm_g_stat_lst |-> Pooled(results, "smGstat"),
                         sm_ratio_lst |-> Pooled(results, "smRatio"),
                         sm_ratio_scaled_g_lst |-> Pooled(results, "smRS_G"),
                         sm_ratio_scaled_g_y_lst |-> Pooled(results, "smRS_G_y")]
            /\ cutoffs' = Cutoffs(pools')
            /\ pc' = "cutoffs"
            /\ UNCHANGED failure
    /\ UNCHANGED <<lines, line, likely_cands>>
    /\ UNCHANGED <<vcf_df, np_errmode, smooth_edges_bounds, loess_span, n, frac,
                   args, results, shuffle_iterations, start_method, workers,
                   streams>>

(***************************************************************************)
(* FeatureProduction.label_df_with_cutoffs                                 *)
(***************************************************************************)
\* np.isclose(x, c): |x - c| <= atol + rtol * |c| with atol = 1e-8, rtol = 1e-5;
\* in fixed point the bound is floor((|c| + 1e-3 * Unit) / 1e5)
IsClose(x, c) ==
    \/ x.k = "inf" /\ x = c
    \/ /\ IsFinite(x)
       /\ IsFinite(c)
       /\ Abs(x.v - c.v) <= (Abs(c.v) + Unit \div 1000) \div 100000

PassesCutoff_close_only(x, cutoff) == IF IsClose(x, cutoff) THEN 1 ELSE 0

PassesCutoff_strict(x, cutoff) == IF FGt(x, cutoff) THEN 1 ELSE 0

\* 1 if (np.isclose(x, cutoff) or (x > cutoff)) else 0
PassesCutoff(x, cutoff) == IF IsClose(x, cutoff) \/ FGt(x, cutoff) THEN 1 ELSE 0

WithLabels(r, gs_cutoff, rsg_cutoff, rsg_y_cutoff) ==
    [chrom |-> r.chrom, idx |-> r.idx, pos |-> r.pos,
     wt_ref |-> r.wt_ref, wt_alt |-> r.wt_alt,
     mu_ref |-> r.mu_ref, mu_alt |-> r.mu_alt,
     ratio |-> r.ratio, G_S |-> r.G_S, RS_G |-> r.RS_G,
     ratio_yhat |-> r.ratio_yhat, GS_yhat |-> r.GS_yhat, RS_G_yhat |-> r.RS_G_yhat,
     G_S_05p |-> PassesCutoff(r.G_S, gs_cutoff),
     RS_G_05p |-> PassesCutoff(r.RS_G, rsg_cutoff),
     RS_G_yhat_01p |-> PassesCutoff(r.RS_G_yhat, rsg_y_cutoff)]

Labelled_by_ratio_cutoff(df, cs) ==
    [i \in 1..Len(df) |-> WithLabels(df[i], cs[1], cs[2], cs[4])]

\* run_pipeline, lines 72-76: the cutoffs are unpacked into gs_cutoff,
\* rs_cutoff, rsg_cutoff, rsg_y_cutoff, and all but rs_cutoff passed on
Labelled(df, cs) ==
    [i \in 1..Len(df) |-> WithLabels(df[i], cs[1], cs[3], cs[4])]

label_df_with_cutoffs ==
    /\ pc = "cutoffs"
    /\ vcf_df' = Labelled(vcf_df, cutoffs)
    /\ pc' = "labelled"
    /\ UNCHANGED <<lines, line, likely_cands, failure>>
    /\ UNCHANGED <<np_errmode, smooth_edges_bounds, loess_span, n, frac, args,
                   results, pools, cutoffs, shuffle_iterations, start_method,
                   workers, streams>>

(***************************************************************************)
(* DataFiltering.drop_na and DataFiltering.drop_genos_with_negative_ratios *)
(***************************************************************************)
DropNa_keeps_all(df) == df

\* vcf_df.dropna(axis=0, how='any', subset=["ratio"])
DropNa(df) == SelectSeq(df, LAMBDA r : ~IsNaN(r.ratio))

drop_na ==
    /\ pc = "features"
    /\ vcf_df' = DropNa(vcf_df)
    /\ pc' = "no_na"
    /\ UNCHANGED <<lines, line, likely_cands, failure>>
    /\ UNCHANGED <<np_errmode, smooth_edges_bounds, loess_span, n, frac, args,
                   results, pools, cutoffs, shuffle_iterations, start_method,
                   workers, streams>>

\* vcf_df[vcf_df['ratio'] >= 0]: a comparison with nan is False
DropNegativeRatios(df) == SelectSeq(df, LAMBDA r : IsFinite(r.ratio) /\ r.ratio.v >= 0)

drop_genos_with_negative_ratios ==
    /\ pc = "no_na"
    /\ vcf_df' = DropNegativeRatios(vcf_df)
    /\ pc' = "filtered"
    /\ UNCHANGED <<lines, line, likely_cands, failure>>
    /\ UNCHANGED <<np_errmode, smooth_edges_bounds, loess_span, n, frac, args,
                   results, pools, cutoffs, shuffle_iterations, start_method,
                   workers, streams>>

(***************************************************************************)
(* TableAndPlots.sort_save_likely_candidates                               *)
(***************************************************************************)
IdentifyLikelyCandidates_all_flags(df) ==
    SelectSeq(df, LAMBDA r : r.RS_G_yhat_01p = 1 /\ r.G_S_05p = 1 /\ r.RS_G_05p = 1)

\* _identify_likely_candidates: the rows with one of the three flags at 1
IdentifyLikelyCandidates(df) ==
    SelectSeq(df, LAMBDA r : r.RS_G_yhat_01p = 1 \/ r.G_S_05p = 1 \/ r.RS_G_05p = 1)

\* _sort_likely_candidates: descending by RS_G_yhat_01p, then G_S_05p, then
\* RS_G_05p, rows with equal flags in their order
SortLikelyCandidates(df) ==
    LET key(r) == 4 * r.RS_G_yhat_01p + 2 * r.G_S_05p + r.RS_G_05p
    IN  Concat([k \in 1..8 |-> SelectSeq(df, LAMBDA r : key(r) = 8 - k)])

\* identify, sort, and save as <prefix>_likely_candidates.csv
sort_save_likely_candidates ==
    /\ pc = "labelled"
    /\ likely_cands' = SortLikelyCandidates(IdentifyLikelyCandidates(vcf_df))
    /\ pc' = "saved"
    /\ UNCHANGED <<lines, line, failure>>
    /\ UNCHANGED <<vcf_df, np_errmode, smooth_edges_bounds, loess_span, n, frac,
                   args, results, pools, cutoffs, shuffle_iterations,
                   start_method, workers, streams>>

(***************************************************************************)
(* BSA.run_pipeline: the loop over bsa_vars.lines.  Whatever self.log.fail *)
(* is called in ends the process (quit()): pc = "failed" has no successor. *)
(***************************************************************************)
\* the plots are written, and the loop goes to the next line or run_pipeline
\* returns; the finished line's tables and the estimator's locals are dropped
next_line ==
    /\ pc = "saved"
    /\ IF line < Len(lines)
       THEN /\ line' = line + 1
            /\ pc' = "start"
       ELSE /\ line' = line
            /\ pc' = "returned"
    /\ vcf_df' = <<>>
    /\ likely_cands' = <<>>
    /\ n' = 0
    /\ frac' = [num |-> 1, den |-> 1]
    /\ args' = <<>>
    /\ results' = <<>>
    /\ pools' = <<>>
    /\ workers' = <<>>
    /\ streams' = <<>>
    /\ UNCHANGED <<np_errmode, smooth_edges_bounds, loess_span, cutoffs,
                   shuffle_iterations, start_method, lines, failure>>

(***************************************************************************)
(* Inputs.                                                                 *)
(***************************************************************************)
Depths == 0..MaxDepth

\* the last row of the four-variant example table: depths (20, 0, 0, 20)
ScenarioSite == <<20, 0, 0, 20>>

Sites == (Depths \X Depths \X Depths \X Depths) \cup {ScenarioSite}

RawRow(chrom, idx, pos, s) ==
    [chrom |-> chrom, idx |-> idx, pos |-> pos,
     wt_ref |-> s[1], wt_alt |-> s[2], mu_ref |-> s[3], mu_alt |-> s[4]]

Idle ==
    /\ smooth_edges_bounds = 1
    /\ loess_span = [num |-> 3, den |-> 10]
    /\ n = 0
    /\ frac = [num |-> 1, den |-> 1]
    /\ args = <<>>
    /\ results = <<>>
    /\ pools = <<>>
    /\ cutoffs = <<>>
    /\ shuffle_iterations = 1
    /\ start_method = "fork"
    /\ workers = <<>>
    /\ streams = <<>>
    /\ lines = <<"line_1">>
    /\ line = 1
    /\ likely_cands = <<>>
    /\ failure = NoFailure

(***************************************************************************)
(* Feature computation on every site of the depth range.                   *)
(***************************************************************************)
InitFeature ==
    /\ \E s \in Sites : vcf_df = << RawRow("1", 0, 100, s) >>
    /\ pc = "loaded"
    /\ np_errmode = "warn"
    /\ Idle

NextFeature == calculate_delta_snp_and_g_statistic

SpecFeature == InitFeature /\ [][NextFeature]_vars

Site(r) == <<r.wt_ref, r.wt_alt, r.mu_ref, r.mu_alt>>
SiteE(r) == ExpectedCounts(r.wt_ref, r.wt_alt, r.mu_ref, r.mu_alt)
Computed == pc = "features"

\* C15: computing the features leaves the four input arrays and the process's
\* numeric error-handling mode as they were.
C15_FeaturesHaveNoSideEffect ==
    [][(pc = "loaded" /\ pc' = "features") =>
        /\ Len(vcf_df') = Len(vcf_df)
        /\ \A i \in 1..Len(vcf_df) : Site(vcf_df'[i]) = Site(vcf_df[i])
        /\ np_errmode' = np_errmode]_vars

\* C2: whenever one of the expected counts e1..e4 of a site is exactly 0,
\* the G statistic stored for the site is exactly 0.
C2_ZeroExpectedGivesZeroG ==
    Computed =>
        \A i \in 1..Len(vcf_df) :
            (\E j \in 1..4 : IsZero(SiteE(vcf_df[i])[j]))
                => vcf_df[i].G_S = Fin(0)

\* a site with a zero expected count next to a non-zero one has been computed
C2_Witness ==
    /\ Computed
    /\ \E i \in 1..Len(vcf_df) :
        /\ \E j \in 1..4 : IsZero(SiteE(vcf_df[i])[j])
        /\ \E j \in 1..4 : ~IsZero(SiteE(vcf_df[i])[j])
        /\ vcf_df[i].G_S = Fin(0)

\* C3 as stated: the site (20, 0, 0, 20) has a zero expected count and G_S = 0.
C3_ScenarioGIsZero ==
    Computed =>
        \A i \in 1..Len(vcf_df) :
            Site(vcf_df[i]) = ScenarioSite
                => /\ \E j \in 1..4 : IsZero(SiteE(vcf_df[i])[j])
                   /\ vcf_df[i].G_S = Fin(0)

\* C3 amended: for the site (20, 0, 0, 20) every expected count is 400/40 = 10,
\* none is 0, and G_S = 2*20*ln 2 + 2*20*ln 2 = 80 ln 2 (about 55.45), not 0.
C3_ScenarioGIsPositive ==
    Computed =>
        \A i \in 1..Len(vcf_df) :
            Site(vcf_df[i]) = ScenarioSite
                => /\ \A j \in 1..4 : SiteE(vcf_df[i])[j] = [num |-> 400, den |-> 40]
                   /\ vcf_df[i].G_S = Fin(80 * LnTable[2])

C3_Witness ==
    /\ Computed
    /\ \E i \in 1..Len(vcf_df) :
        Site(vcf_df[i]) = ScenarioSite /\ FGt(vcf_df[i].G_S, Fin(55 * Unit))

\* C4: for an all-zero site the computation completes, G_S is 0, and the
\* ratio and RS_G are not finite.
C4_AllZeroSite ==
    /\ pc # "failed"
    /\ Computed =>
        \A i \in 1..Len(vcf_df) :
            Site(vcf_df[i]) = <<0, 0, 0, 0>>
                => /\ vcf_df[i].G_S = Fin(0)
                   /\ ~IsFinite(vcf_df[i].ratio)
                   /\ ~IsFinite(vcf_df[i].RS_G)

C4_Witness ==
    /\ Computed
    /\ \E i \in 1..Len(vcf_df) :
        Site(vcf_df[i]) = <<0, 0, 0, 0>> /\ IsNaN(vcf_df[i].RS_G)

\* C5: when both bulk totals are positive the ratio is finite and in [-1, 1].
C5_RatioInUnitRange ==
    Computed =>
        \A i \in 1..Len(vcf_df) :
            (vcf_df[i].wt_ref + vcf_df[i].wt_alt > 0
                /\ vcf_df[i].mu_ref + vcf_df[i].mu_alt > 0)
                => /\ IsFinite(vcf_df[i].ratio)
                   /\ vcf_df[i].ratio.v >= -Unit
                   /\ vcf_df[i].ratio.v <= Unit

\* both ends of the range are attained
C5_Witness ==
    /\ Computed
    /\ \E i \in 1..Len(vcf_df) :
        /\ vcf_df[i].wt_ref + vcf_df[i].wt_alt > 0
        /\ vcf_df[i].mu_ref + vcf_df[i].mu_alt > 0
        /\ vcf_df[i].ratio = Fin(-Unit)

\* C6: the G statistic of every site is a finite number >= 0.
C6_GNonNegative ==
    Computed =>
        \A i \in 1..Len(vcf_df) :
            IsFinite(vcf_df[i].G_S) /\ vcf_df[i].G_S.v >= 0

\* a site with four positive counts and a strictly positive statistic
C6_Witness ==
    /\ Computed
    /\ \E i \in 1..Len(vcf_df) :
        /\ \A j \in 1..4 : Site(vcf_df[i])[j] > 0
        /\ vcf_df[i].G_S.v > 0

\* the four marginal totals of a site: the two bulks and the two alleles
Marginals(r) ==
    <<r.wt_ref + r.wt_alt, r.mu_ref + r.mu_alt, r.wt_ref + r.mu_ref, r.wt_alt + r.mu_alt>>

\* C25: the zero guard fires for a site exactly when one of its four marginal
\* totals is 0; a site whose marginal totals are all positive keeps the sum
\* of its four log-likelihood terms.
C25_GuardIffMarginalZero ==
    Computed =>
        \A i \in 1..Len(vcf_df) :
            LET r == vcf_df[i]
                e == SiteE(r)
            IN  /\ ZeroGuard(e) <=> (\E j \in 1..4 : Marginals(r)[j] = 0)
                /\ ZeroGuard(e) => r.G_S = Fin(0)
                /\ (\A j \in 1..4 : Marginals(r)[j] > 0) =>
                        r.G_S = FAdd(FAdd(FAdd(llr(r.wt_ref, e[1]), llr(r.mu_ref, e[2])),
                                          llr(r.wt_alt, e[3])), llr(r.mu_alt, e[4]))

\* a site with no alt read in either bulk (one marginal total 0, the other
\* three positive) has been computed: the guard fired and G_S is 0
C25_Witness ==
    /\ Computed
    /\ \E i \in 1..Len(vcf_df) :
        /\ Site(vcf_df[i]) = <<2, 0, 1, 0>>
        /\ ZeroGuard(SiteE(vcf_df[i]))
        /\ vcf_df[i].G_S = Fin(0)

(***************************************************************************)
(* The subsample fraction for every variant count up to MaxVariants; the   *)
(* table is left out, only its length n is read by lines 540-549.          *)
(***************************************************************************)
InitFrac ==
    /\ n \in 0..MaxVariants
    /\ pc = "counted"
    /\ vcf_df = <<>>
    /\ np_errmode = "ignore"
    /\ smooth_edges_bounds = 1
    /\ loess_span = [num |-> 3, den |-> 10]
    /\ frac = [num |-> 1, den |-> 1]
    /\ args = <<>>
    /\ results = <<>>
    /\ pools = <<>>
    /\ cutoffs = <<>>
    /\ shuffle_iterations = 1
    /\ start_method = "fork"
    /\ workers = <<>>
    /\ streams = <<>>
    /\ lines = <<"line_1">>
    /\ line = 1
    /\ likely_cands = <<>>
    /\ failure = NoFailure

NextFrac == cutoffs_fraction

SpecFrac == InitFrac /\ [][NextFrac]_vars

\* C7: frac is 0.05 above 20000 variants, 1 below 1000, and on the line
\* through (1000, 1) and (20000, 0.05) in between, that is (21000 - n)/20000;
\* it stays within [0.05, 1] and does not grow with n.
C7_SubsampleFraction ==
    pc = "bootstrapping" =>
        /\ n > 20000 => frac = [num |-> 1, den |-> 20]
        /\ n < 1000 => frac = [num |-> 1, den |-> 1]
        /\ (n >= 1000 /\ n <= 20000) => frac.num * 20000 = (21000 - n) * frac.den
        /\ n = 1000 => frac = [num |-> 1, den |-> 1]
        /\ n = 20000 => frac = [num |-> 1, den |-> 20]
        /\ frac.den <= 20 * frac.num
        /\ frac.num <= frac.den
        /\ RatLe(SubsampleFraction(n + 1), frac)

\* a count strictly inside the interpolation range: 10500 variants give 0.525
C7_Witness ==
    pc = "bootstrapping" /\ n = 10500 /\ frac = [num |-> 21, den |-> 40]

(***************************************************************************)
(* Smoothing of tables of one or two chromosomes, sorted by position, with *)
(* the features computed and every ratio finite and non-negative.          *)
(***************************************************************************)
\* spacings of consecutive positions: even, and alternating 2, 1, 2, ...
Gaps(len) == {[i \in 1..len |-> 1], [i \in 1..len |-> 1 + (i % 2)]}
SmoothSites == {<<3, 1, 1, 3>>, <<2, 1, 1, 1>>}
Spans == {[num |-> 3, den |-> 10], [num |-> 1, den |-> 1]}
Chroms == <<"1", "2">>

\* the table of len rows whose first `split` rows are on chromosome "1"
SortedTable(len, split, gap, site) ==
    LET chrom(i) == IF i <= split THEN Chroms[1] ELSE Chroms[2]
        first(i) == IF i <= split THEN 1 ELSE split + 1
        RECURSIVE pos(_)
        pos(i) == IF i = first(i) THEN gap[i] ELSE pos(i - 1) + gap[i]
    IN  [i \in 1..len |-> RawRow(chrom(i), i - 1, pos(i), site[i])]

InitSmooth ==
    /\ \E len \in 1..MaxRows :
        \E split \in 1..len, gap \in Gaps(len), site \in [1..len -> SmoothSites] :
            vcf_df = [i \in 1..len |-> WithFeatures(SortedTable(len, split, gap, site)[i])]
    /\ pc = "filtered"
    /\ np_errmode = "ignore"
    /\ smooth_edges_bounds \in 1..MaxEdge
    /\ loess_span \in Spans
    /\ n = 0
    /\ frac = [num |-> 1, den |-> 1]
    /\ args = <<>>
    /\ results = <<>>
    /\ pools = <<>>
    /\ cutoffs = <<>>
    /\ shuffle_iterations = 1
    /\ start_method = "fork"
    /\ workers = <<>>
    /\ streams = <<>>
    /\ lines = <<"line_1">>
    /\ line = 1
    /\ likely_cands = <<>>
    /\ failure = NoFailure

NextSmooth == fit_model

SpecSmooth == InitSmooth /\ [][NextSmooth]_vars

Labels(df, c) == Column(Facet(df, c), "idx")
HasFit(r) == IsFinite(r.ratio_yhat) /\ IsFinite(r.GS_yhat) /\ IsFinite(r.RS_G_yhat)

\* C1: smoothing a facet of more than 2*edge_bound rows returns one fitted row
\* per input row, in input order.
C1_SmoothedLengthEqualsInput ==
    [][(pc = "filtered" /\ pc' = "smoothed") =>
        \A c \in Range(Chroms) :
            Len(Facet(vcf_df, c)) > 2 * smooth_edges_bounds
                => /\ Len(Facet(vcf_df', c)) = Len(Facet(vcf_df, c))
                   /\ Labels(vcf_df', c) = Labels(vcf_df, c)
                   /\ \A i \in 1..Len(Facet(vcf_df', c)) : HasFit(Facet(vcf_df', c)[i])]_vars

\* C14: the rows the cutoff estimator copies from the table fit_model returns
\* are the rows of the table fit_model was given, so the variant count and the
\* subsample fraction are those of the pre-smoothing table.
C14_EstimatorReadsPreSmoothingRows ==
    [][(pc = "filtered" /\ pc' = "smoothed") =>
        /\ Len(ColumnCopies(vcf_df').position) = Len(ColumnCopies(vcf_df).position)
        /\ Range(ColumnCopies(vcf_df').position) = Range(ColumnCopies(vcf_df).position)
        /\ Range(ColumnCopies(vcf_df').wt) = Range(ColumnCopies(vcf_df).wt)
        /\ Range(ColumnCopies(vcf_df').mu) = Range(ColumnCopies(vcf_df).mu)
        /\ SubsampleFraction(Len(vcf_df')) = SubsampleFraction(Len(vcf_df))]_vars

\* no index label twice
NoRepeat(df) == \A i, j \in 1..Len(df) : df[i].idx = df[j].idx => i = j

\* the step in which fit_model smooths the table
Smoothing == pc = "filtered" /\ pc' = "smoothed"

\* rows a..b of s, last first
ReversedRows(s, a, b) == [i \in 1..(b - a + 1) |-> s[b + 1 - i]]

C19_PseudoPositionAxis ==
    [][Smoothing =>
        \A c \in Range(Chroms) :
            LET f == Facet(vcf_df, c)
                eb == smooth_edges_bounds
                psuedo_pos == PseudoPos(DeltasMirroredEnds(Deltas(Column(f, "pos")), eb))
            IN  (Len(f) >= eb /\ Len(f) >= 1) =>
                    /\ psuedo_pos[1] = 0
                    /\ \A i \in 1..(Len(psuedo_pos) - 1) : psuedo_pos[i] <= psuedo_pos[i + 1]
                    /\ Len(psuedo_pos) = Len(f) + 2 * (eb - 1)
                    /\ Len(psuedo_pos) = Len(MirroredFacet(f, eb))]_vars

\* a chromosome of 5 unevenly spaced rows was smoothed on an axis of 7 entries
C19_Witness ==
    /\ pc = "smoothed"
    /\ smooth_edges_bounds = 2
    /\ Len(vcf_df) = 3
    /\ vcf_df[2].pos - vcf_df[1].pos # vcf_df[3].pos - vcf_df[2].pos

\* the raw columns of a row
Raw(r) == <<r.chrom, r.idx, r.pos, r.wt_ref, r.wt_alt, r.mu_ref, r.mu_alt>>

\* C20: in the smoothed table every row of a chromosome is a row of that
\* chromosome's input facet, no row is there twice, and the rows follow each
\* other as in the input facet.
C20_FacetOrderPreserved ==
    [][Smoothing =>
        \A c \in Range(Chroms) :
            LET given == Facet(vcf_df, c)
                kept == Facet(vcf_df', c)
                at(j) == CHOOSE i \in 1..Len(given) : Raw(given[i]) = Raw(kept[j])
            IN  /\ \A j \in 1..Len(kept) : \E i \in 1..Len(given) : Raw(given[i]) = Raw(kept[j])
                /\ NoRepeat(kept)
                /\ \A j, k \in 1..Len(kept) : j < k => at(j) < at(k)]_vars

\* three rows in input order are left of a chromosome smoothed with mirrored ends
C20_Witness ==
    /\ pc = "smoothed"
    /\ smooth_edges_bounds = 2
    /\ Len(vcf_df) = 3
    /\ <<vcf_df[1].idx, vcf_df[2].idx, vcf_df[3].idx>> = <<1, 2, 3>>

\* the columns a row has before smoothing
Unfitted(r) == <<Raw(r), r.ratio, r.G_S, r.RS_G>>

C30_AxisKeepsPositionGaps ==
    [][Smoothing =>
        \A c \in Range(Chroms) :
            LET f == Facet(vcf_df, c)
                m == Len(f)
                eb == smooth_edges_bounds
                off == Min(eb, m) - 1
                psuedo_pos == PseudoPos(DeltasMirroredEnds(Deltas(Column(f, "pos")), eb))
            IN  m >= 1 =>
                    /\ SubSeq(MirroredFacet(f, eb), off + 1, off + m) = f
                    /\ \A j \in 1..(m - 1) :
                            psuedo_pos[off + j + 1] - psuedo_pos[off + j]
                                = f[j + 1].pos - f[j].pos]_vars

\* a chromosome whose rows are 1, 2, 1 and 2 apart was smoothed with one
\* mirrored row at each end
C30_Witness ==
    /\ pc = "smoothed"
    /\ smooth_edges_bounds = 2
    /\ Len(vcf_df) = 3
    /\ vcf_df[1].chrom = vcf_df[3].chrom
    /\ vcf_df[2].pos - vcf_df[1].pos = 2
    /\ vcf_df[3].pos - vcf_df[2].pos = 1

(***************************************************************************)
(* Smoothing of chromosomes that have fewer rows than edge_bound: tables   *)
(* of up to ClipRows rows on one or two chromosomes, every row the same    *)
(* site, and smooth_edges_bounds up to ClipEdge.                           *)
(***************************************************************************)
InitClip ==
    /\ \E len \in 1..ClipRows :
        \E split \in 1..len, gap \in Gaps(len), s \in SmoothSites :
            vcf_df = [i \in 1..len |->
                        WithFeatures(SortedTable(len, split, gap, [j \in 1..len |-> s])[i])]
    /\ pc = "filtered"
    /\ np_errmode = "ignore"
    /\ smooth_edges_bounds \in 1..ClipEdge
    /\ loess_span = [num |-> 3, den |-> 10]
    /\ n = 0
    /\ frac = [num |-> 1, den |-> 1]
    /\ args = <<>>
    /\ results = <<>>
    /\ pools = <<>>
    /\ cutoffs = <<>>
    /\ shuffle_iterations = 1
    /\ start_method = "fork"
    /\ workers = <<>>
    /\ streams = <<>>
    /\ lines = <<"line_1">>
    /\ line = 1
    /\ likely_cands = <<>>
    /\ failure = NoFailure

NextClip == fit_model

SpecClip == InitClip /\ [][NextClip]_vars

BootSites == {<<3, 0, 2, 1>>, <<1, 1, 0, 1>>, <<2, 1, 1, 1>>}
EdgeSite == <<2, 1, 1, 1>>

SmoothedTable(len, site) ==
    LET raw == SortedTable(len + 2, len + 2, [i \in 1..(len + 2) |-> 1],
                           <<EdgeSite>> \o site \o <<EdgeSite>>)
        featured == [i \in 1..(len + 2) |-> WithFeatures(raw[i])]
    IN  FitChrFacets(featured, [num |-> 1, den |-> 1], 1)[1].df

InitBoot ==
    /\ \E len \in 1..BootRows :
        \E site \in [1..len -> BootSites] : vcf_df = SmoothedTable(len, site)
    /\ pc = "smoothed"
    /\ np_errmode = "ignore"
    /\ smooth_edges_bounds = 1
    /\ loess_span = [num |-> 1, den |-> 1]
    /\ shuffle_iterations \in 1..MaxIterations
    /\ start_method \in {"fork", "spawn"}
    /\ n = 0
    /\ frac = [num |-> 1, den |-> 1]
    /\ args = <<>>
    /\ results = <<>>
    /\ pools = <<>>
    /\ cutoffs = <<>>
    /\ workers = <<>>
    /\ streams = <<>>
    /\ lines = <<"line_1">>
    /\ line = 1
    /\ likely_cands = <<>>
    /\ failure = NoFailure

NextBoot ==
    \/ cutoffs_begin
    \/ cutoffs_fraction
    \/ \E w \in 1..NumWorkers, i \in 1..MaxIterations :
        i <= Len(results) /\ empirical_cutoff(w, i)
    \/ \E w \in 1..NumWorkers, i \in 1..MaxIterations :
        i <= Len(results) /\ empirical_cutoff_raises(w, i)
    \/ cutoffs_finish
    \/ label_df_with_cutoffs

SpecBoot == InitBoot /\ [][NextBoot]_vars

TrialDone(i) == results[i].status = "done"

\* C8: in every trial the three samples have the same length round(frac * n)
\* and no row twice; every sampled wt pair is the (wt_ref, wt_alt) of one table
\* row, every sampled mu pair the (mu_ref, mu_alt) of one table row, every
\* sampled position a table row's; synthetic row j is computed from the j-th
\* position, the j-th wt pair and the j-th mu pair.
C8_TrialResampling ==
    pc \in {"bootstrapping", "cutoffs"} =>
        \A i \in 1..Len(results) :
            TrialDone(i) =>
                LET r == results[i]
                    size == SampleSize(Len(vcf_df), frac)
                IN  /\ Len(r.dfShPos) = size
                    /\ Len(r.dfShwt) = size
                    /\ Len(r.dfShmu) = size
                    /\ NoRepeat(r.dfShPos) /\ NoRepeat(r.dfShwt) /\ NoRepeat(r.dfShmu)
                    /\ \A j \in 1..size :
                        /\ \E a \in 1..Len(vcf_df) :
                            /\ vcf_df[a].idx = r.dfShPos[j].idx
                            /\ vcf_df[a].pos = r.dfShPos[j].pos
                        /\ \E a \in 1..Len(vcf_df) :
                            /\ vcf_df[a].idx = r.dfShwt[j].idx
                            /\ vcf_df[a].wt_ref = r.dfShwt[j].wt_ref
                            /\ vcf_df[a].wt_alt = r.dfShwt[j].wt_alt
                        /\ \E a \in 1..Len(vcf_df) :
                            /\ vcf_df[a].idx = r.dfShmu[j].idx
                            /\ vcf_df[a].mu_ref = r.dfShmu[j].mu_ref
                            /\ vcf_df[a].mu_alt = r.dfShmu[j].mu_alt
                        /\ r.smRatio[j] =
                            FSub(TrueDivide(r.dfShwt[j].wt_ref,
                                            r.dfShwt[j].wt_ref + r.dfShwt[j].wt_alt),
                                 TrueDivide(r.dfShmu[j].mu_ref,
                                            r.dfShmu[j].mu_ref + r.dfShmu[j].mu_alt))
                        /\ r.smRS_G[j] = FMul(r.smRatio[j], r.smGstat[j])

\* a trial whose synthetic row pairs the wt depths of one row with the mu depths
\* of another, at the position of a third sample's row
C8_Witness ==
    /\ pc = "bootstrapping"
    /\ \E i \in 1..Len(results) :
        /\ TrialDone(i)
        /\ Len(results[i].dfShwt) = 2
        /\ results[i].dfShwt[1].idx # results[i].dfShmu[1].idx
        /\ results[i].dfShPos[1].idx # results[i].dfShwt[1].idx
        /\ results[i].smRatio[1].v < 0

CountIn(a, v) == Cardinality({j \in 1..Len(a) : a[j] = v})

RECURSIVE CountInTrials(_, _, _)
CountInTrials(k, name, v) ==
    IF k = 0 THEN 0
    ELSE CountIn(results[k][name], v) + CountInTrials(k - 1, name, v)

\* every value of every trial is in the pooled list as often as in the trials
PoolsEveryTrial(lst, name) ==
    /\ Len(lst) = shuffle_iterations * SampleSize(Len(vcf_df), frac)
    /\ \A v \in Range(lst) : CountIn(lst, v) = CountInTrials(Len(results), name, v)
    /\ \A i \in 1..Len(results) : Range(results[i][name]) \subseteq Range(lst)

\* C9: the cutoffs are, in order, the 95th percentile of the pooled G_S, of the
\* pooled ratio, of the pooled RS_G and the 99.99th percentile of the pooled
\* smoothed RS_G, each pool holding every value of every trial once.
C9_CutoffsArePooledPercentiles ==
    pc = "cutoffs" =>
        /\ Len(results) = shuffle_iterations
        /\ PoolsEveryTrial(pools.sm_g_stat_lst, "smGstat")
        /\ PoolsEveryTrial(pools.sm_ratio_lst, "smRatio")
        /\ PoolsEveryTrial(pools.sm_ratio_scaled_g_lst, "smRS_G")
        /\ PoolsEveryTrial(pools.sm_ratio_scaled_g_y_lst, "smRS_G_y")
        /\ cutoffs[1] = Percentile(pools.sm_g_stat_lst, 95, 1)
        /\ cutoffs[2] = Percentile(pools.sm_ratio_lst, 95, 1)
        /\ cutoffs[3] = Percentile(pools.sm_ratio_scaled_g_lst, 95, 1)
        /\ cutoffs[4] = Percentile(pools.sm_ratio_scaled_g_y_lst, 9999, 100)
        /\ Len(cutoffs) = 4

\* two trials with different draws pooled, and four different cutoffs
C9_Witness ==
    /\ pc = "cutoffs"
    /\ shuffle_iterations = 2
    /\ results[1].smGstat # results[2].smGstat
    /\ Cardinality(Range(cutoffs)) = 4
    /\ \A c \in 1..4 : IsFinite(cutoffs[c])

(***************************************************************************)
(* Labelling of tables whose statistics lie at, just below and above the   *)
(* cutoffs.                                                                *)
(***************************************************************************)
CutoffVals == {Fin(20 * Unit), Fin(50 * Unit)}
StatVals == {Fin(20 * Unit - 3), Fin(20 * Unit - 2), Fin(50 * Unit)}

LabelInput(base, gs, rsg, rsg_y) ==
    [i \in 1..Len(base) |->
        [base[i] EXCEPT !.G_S = gs[i], !.RS_G = rsg[i], !.RS_G_yhat = rsg_y[i]]]

InitLabel ==
    /\ \E len \in 1..LabelRows :
        \E base \in {SmoothedTable(len, [i \in 1..len |-> EdgeSite])},
           gs \in [1..len -> StatVals],
           rsg \in [1..len -> StatVals \cup {NaN}],
           rsg_y \in [1..len -> StatVals \cup {NaN}] :
            vcf_df = LabelInput(base, gs, rsg, rsg_y)
    /\ \E c1 \in CutoffVals, c3 \in CutoffVals, c4 \in CutoffVals :
        cutoffs = <<c1, Fin(Unit \div 2), c3, c4>>
    /\ pc = "cutoffs"
    /\ np_errmode = "ignore"
    /\ smooth_edges_bounds = 1
    /\ loess_span = [num |-> 1, den |-> 1]
    /\ shuffle_iterations = 1
    /\ start_method = "fork"
    /\ n = 0
    /\ frac = [num |-> 1, den |-> 1]
    /\ args = <<>>
    /\ results = <<>>
    /\ pools = <<>>
    /\ workers = <<>>
    /\ streams = <<>>
    /\ lines = <<"line_1">>
    /\ line = 1
    /\ likely_cands = <<>>
    /\ failure = NoFailure

NextLabel == label_df_with_cutoffs \/ sort_save_likely_candidates

SpecLabel == InitLabel /\ [][NextLabel]_vars

\* x >= c, or x below c by at most 1e-8 + 1e-5 * |c|; never for a nan
AtLeastOrNear(x, c) ==
    /\ x.k = "fin"
    /\ c.k = "fin"
    /\ \/ x.v >= c.v
       \/ c.v - x.v <= (Abs(c.v) + Unit \div 1000) \div 100000

\* C10: every record's G_S_05p is 1 exactly when its G_S is at least, or
\* near-equal to, gs_cutoff, and 0 otherwise; RS_G_05p likewise from RS_G and
\* rsg_cutoff, RS_G_yhat_01p from RS_G_yhat and rsg_y_cutoff.
C10_FlagsFollowOwnCutoff ==
    pc = "labelled" =>
        \A i \in 1..Len(vcf_df) :
            /\ vcf_df[i].G_S_05p = (IF AtLeastOrNear(vcf_df[i].G_S, cutoffs[1]) THEN 1 ELSE 0)
            /\ vcf_df[i].RS_G_05p = (IF AtLeastOrNear(vcf_df[i].RS_G, cutoffs[3]) THEN 1 ELSE 0)
            /\ vcf_df[i].RS_G_yhat_01p =
                (IF AtLeastOrNear(vcf_df[i].RS_G_yhat, cutoffs[4]) THEN 1 ELSE 0)

\* one record passes a cutoff from just below it while its other two flags,
\* against other cutoffs, are 0
C10_Witness ==
    /\ pc = "labelled"
    /\ \E i \in 1..Len(vcf_df) :
        /\ vcf_df[i].G_S = Fin(20 * Unit - 2)
        /\ cutoffs[1] = Fin(20 * Unit)
        /\ vcf_df[i].G_S_05p = 1
        /\ vcf_df[i].RS_G = vcf_df[i].G_S
        /\ vcf_df[i].RS_G_05p = 0
        /\ vcf_df[i].RS_G_yhat_01p = 0

AnyFlag(r) == r.RS_G_yhat_01p = 1 \/ r.G_S_05p = 1 \/ r.RS_G_05p = 1

\* C17: a record of the labelled table is among the likely candidates exactly
\* when at least one of its flags RS_G_yhat_01p, G_S_05p, RS_G_05p is 1, and it
\* is there once.
C17_CandidateIffAnyFlag ==
    pc = "saved" =>
        /\ \A i \in 1..Len(vcf_df) :
            AnyFlag(vcf_df[i]) <=> \E j \in 1..Len(likely_cands) : likely_cands[j] = vcf_df[i]
        /\ \A j \in 1..Len(likely_cands) :
            \E i \in 1..Len(vcf_df) : likely_cands[j] = vcf_df[i]
        /\ NoRepeat(likely_cands)

\* a record with a single flag at 1 is selected, a record with none is not
C17_Witness ==
    /\ pc = "saved"
    /\ Len(vcf_df) = 2
    /\ Len(likely_cands) = 1
    /\ likely_cands[1].RS_G_05p = 1
    /\ likely_cands[1].G_S_05p = 0
    /\ likely_cands[1].RS_G_yhat_01p = 0

\* x <= y for two numbers; not so when either is a nan
NotAbove(x, y) == ~IsNaN(x) /\ ~IsNaN(y) /\ ~FGt(x, y)

\* the flag of row j is 1 if the flag of row i is and value i <= value j
FlagsUpwardClosed(value, flag) ==
    /\ \A i, j \in 1..Len(vcf_df) :
        (NotAbove(vcf_df[i][value], vcf_df[j][value]) /\ vcf_df[i][flag] = 1)
            => vcf_df[j][flag] = 1
    /\ \A i \in 1..Len(vcf_df) : IsNaN(vcf_df[i][value]) => vcf_df[i][flag] = 0

\* C26: in each of the three flag columns, a value at least as large as a
\* value that got flag 1 against the same cutoff got flag 1 too, and a nan
\* value got flag 0.
C26_LabellingUpwardClosed ==
    pc = "labelled" =>
        /\ FlagsUpwardClosed("G_S", "G_S_05p")
        /\ FlagsUpwardClosed("RS_G", "RS_G_05p")
        /\ FlagsUpwardClosed("RS_G_yhat", "RS_G_yhat_01p")

\* a value within the tolerance below the cutoff and a value far above it both
\* have flag 1, and a nan in the same table has flag 0
C26_Witness ==
    /\ pc = "labelled"
    /\ Len(vcf_df) = 2
    /\ cutoffs[3] = Fin(20 * Unit)
    /\ vcf_df[1].RS_G = Fin(20 * Unit - 2) /\ vcf_df[1].RS_G_05p = 1
    /\ vcf_df[2].RS_G = Fin(50 * Unit) /\ vcf_df[2].RS_G_05p = 1
    /\ IsNaN(vcf_df[1].RS_G_yhat) /\ vcf_df[1].RS_G_yhat_01p = 0

FlagColumns == {"G_S_05p", "RS_G_05p", "RS_G_yhat_01p"}

\* C27: labelling adds the three flag columns and nothing else: the rows are
\* as many and in the same order as before, every column they had keeps its
\* value, and whatever rs_cutoff is, the flags are the same.
C27_LabellingOnlyAddsFlags ==
    [][(pc = "cutoffs" /\ pc' = "labelled") =>
        /\ Len(vcf_df') = Len(vcf_df)
        /\ \A i \in 1..Len(vcf_df) :
            /\ DOMAIN vcf_df'[i] = DOMAIN vcf_df[i] \cup FlagColumns
            /\ \A col \in DOMAIN vcf_df[i] : vcf_df'[i][col] = vcf_df[i][col]
        /\ \A rs \in CutoffVals \cup {NaN, Fin(0), Fin(Unit)} :
            vcf_df' = Labelled(vcf_df, [cutoffs EXCEPT ![2] = rs])]_vars

\* two rows whose ratio is below rs_cutoff have been labelled, one with the
\* G_S flag only, the other with the two RS_G flags only
C27_Witness ==
    /\ pc = "labelled"
    /\ Len(vcf_df) = 2
    /\ \A i \in 1..2 : IsFinite(vcf_df[i].ratio) /\ FGt(cutoffs[2], vcf_df[i].ratio)
    /\ <<vcf_df[1].G_S_05p, vcf_df[1].RS_G_05p, vcf_df[1].RS_G_yhat_01p>> = <<1, 0, 0>>
    /\ <<vcf_df[2].G_S_05p, vcf_df[2].RS_G_05p, vcf_df[2].RS_G_yhat_01p>> = <<0, 1, 1>>

(***************************************************************************)
(* Failing trials, the join barrier and the workers' random streams, on    *)
(* the cutoff estimation of SpecBoot.                                      *)
(***************************************************************************)
TrialRaised(i) == results[i].status = "raised"

\* C11: once a trial has raised, no pooled list and no cutoff is ever computed,
\* whatever the other trials returned, and the line gets neither cutoffs nor labels.
C11_FailedTrialYieldsNoCutoffs ==
    (\E i \in 1..Len(results) : TrialRaised(i)) =>
        /\ pools = <<>>
        /\ cutoffs = <<>>
        /\ pc \in {"bootstrapping", "failed"}

\* the estimate has ended in failure although another trial had returned its result
C11_Witness ==
    /\ pc = "failed"
    /\ \E i, j \in 1..Len(results) : TrialRaised(i) /\ TrialDone(j)
    /\ cutoffs = <<>>

\* C12: exactly shuffle_iterations trials are handed to the pool, and while one
\* of them has not returned there is no pooled list and no cutoff; cutoffs exist
\* only with every trial's result returned.
C12_JoinBarrier ==
    /\ pc \in {"bootstrapping", "cutoffs", "labelled", "failed"}
        => Len(results) = shuffle_iterations
    /\ (\E i \in 1..Len(results) : results[i].status = "pending")
        => pools = <<>> /\ cutoffs = <<>> /\ pc \notin {"cutoffs", "labelled"}
    /\ cutoffs # <<>> => \A i \in 1..Len(results) : TrialDone(i)

\* cutoffs computed from two trials that ran in different workers
C12_Witness ==
    /\ pc = "cutoffs"
    /\ Len(results) = 2
    /\ \A i \in 1..2 : TrialDone(i)
    /\ \A w \in 1..NumWorkers : workers[w].pos = 1

\* C13: a worker about to run a trial can make any draws, whatever the trials
\* of the other workers have drawn.
C13_TrialDrawsNotForced ==
    pc = "bootstrapping" =>
        \A w \in 1..NumWorkers :
            NextDraws(w) = Draws(Len(args.position), SampleSize(Len(args.position), frac))

\* C28: from the call of calculate_empirical_cutoffs to its return, whichever
\* worker runs whichever trial in whatever order, the table keeps its rows,
\* their order and every value, and the three column copies the trials read
\* stay what they were copied as.
C28_EstimatorLeavesTableUnchanged ==
    [][(pc = "smoothed" \/ pc = "counted" \/ pc = "bootstrapping") =>
        /\ vcf_df' = vcf_df
        /\ pc' \in {"counted", "bootstrapping", "cutoffs", "failed"}
        /\ args' = ColumnCopies(vcf_df)]_vars

\* the cutoffs are there, a trial has sampled the second row of the table
\* first, and the table is in its order
C28_Witness ==
    /\ pc = "cutoffs"
    /\ Column(vcf_df, "idx") = <<1, 2>>
    /\ \E i \in 1..Len(results) :
        TrialDone(i) /\ Column(results[i].dfShPos, "idx") = <<2, 1>>

\* every row has reads in both bulks, as after drop_na
BothBulksRead(df) ==
    \A i \in 1..Len(df) :
        df[i].wt_ref + df[i].wt_alt > 0 /\ df[i].mu_ref + df[i].mu_alt > 0

\* a finite number in [-1, 1]
InUnitRange(x) == IsFinite(x) /\ x.v >= -Unit /\ x.v <= Unit

\* C29: when every row of the table the estimator is given has reads in both
\* bulks, every synthetic row of every trial has a finite ratio in [-1, 1] and
\* a finite RS_G, whichever wt pair it has with whichever mu pair, and so has
\* every entry of the pooled ratio and RS_G lists.
C29_SyntheticRatiosFinite ==
    BothBulksRead(vcf_df) =>
        /\ pc \in {"bootstrapping", "cutoffs"} =>
            \A i \in 1..Len(results) :
                TrialDone(i) =>
                    \A j \in 1..Len(results[i].smRatio) :
                        /\ InUnitRange(results[i].smRatio[j])
                        /\ IsFinite(results[i].smRS_G[j])
        /\ pc = "cutoffs" =>
            /\ \A j \in 1..Len(pools.sm_ratio_lst) : InUnitRange(pools.sm_ratio_lst[j])
            /\ \A j \in 1..Len(pools.sm_ratio_scaled_g_lst) :
                    IsFinite(pools.sm_ratio_scaled_g_lst[j])

\* the pooled ratios of a table without a negative ratio hold a negative one,
\* from the wt pair of one row and the mu pair of another
C29_Witness ==
    /\ pc = "cutoffs"
    /\ BothBulksRead(vcf_df)
    /\ \A i \in 1..Len(vcf_df) : vcf_df[i].ratio.v >= 0
    /\ \E j \in 1..Len(pools.sm_ratio_lst) : pools.sm_ratio_lst[j].v < 0
    /\ \E i \in 1..Len(results) :
        TrialDone(i) /\ results[i].dfShwt[1].idx # results[i].dfShmu[1].idx

(***************************************************************************)
(* The whole pipeline over NumLines lines.  A line's table, as loaded and  *)
(* cleaned, has up to LineRows rows on one chromosome; a site with no      *)
(* reads gives a nan ratio, (1, 1, 2, 0) a negative one.                   *)
(***************************************************************************)
LineSites == {<<0, 0, 0, 0>>, <<1, 1, 2, 0>>, <<2, 1, 1, 1>>, <<3, 0, 2, 1>>}

LineTables ==
    UNION {{SortedTable(len, len, [i \in 1..len |-> 1], site) :
                site \in [1..len -> LineSites]} : len \in 1..LineRows}

\* lines 31-52: the line's table is loaded and cleaned
load_vcf_table ==
    /\ pc = "start"
    /\ vcf_df' \in LineTables
    /\ pc' = "loaded"
    /\ UNCHANGED <<lines, line, likely_cands, failure>>
    /\ UNCHANGED <<np_errmode, smooth_edges_bounds, loess_span, n, frac, args,
                   results, pools, cutoffs, shuffle_iterations, start_method,
                   workers, streams>>

InitLines ==
    /\ lines = [l \in 1..NumLines |-> l]
    /\ line = 1
    /\ pc = "start"
    /\ vcf_df = <<>>
    /\ likely_cands = <<>>
    /\ failure = NoFailure
    /\ np_errmode = "warn"
    /\ smooth_edges_bounds = 1
    /\ loess_span = [num |-> 1, den |-> 1]
    /\ shuffle_iterations = 1
    /\ start_method \in {"fork", "spawn"}
    /\ n = 0
    /\ frac = [num |-> 1, den |-> 1]
    /\ args = <<>>
    /\ results = <<>>
    /\ pools = <<>>
    /\ cutoffs = <<>>
    /\ workers = <<>>
    /\ streams = <<>>

NextLines ==
    \/ load_vcf_table
    \/ calculate_delta_snp_and_g_statistic
    \/ drop_na
    \/ drop_genos_with_negative_ratios
    \/ fit_model
    \/ cutoffs_begin
    \/ cutoffs_fraction
    \/ \E w \in 1..NumWorkers, i \in 1..MaxIterations :
        i <= Len(results) /\ empirical_cutoff(w, i)
    \/ \E w \in 1..NumWorkers, i \in 1..MaxIterations :
        i <= Len(results) /\ empirical_cutoff_raises(w, i)
    \/ cutoffs_finish
    \/ label_df_with_cutoffs
    \/ sort_save_likely_candidates
    \/ next_line

\* run_pipeline's own steps between the numeric stages
LoopSteps ==
    \/ load_vcf_table
    \/ drop_na
    \/ drop_genos_with_negative_ratios
    \/ cutoffs_begin
    \/ cutoffs_fraction
    \/ cutoffs_finish
    \/ label_df_with_cutoffs
    \/ sort_save_likely_candidates
    \/ next_line

\* the process is not held up: it takes its next step whenever it has one
SpecLines == InitLines /\ [][NextLines]_vars /\ WF_vars(LoopSteps)

\* C16: when a stage fails on a line that is not the last, the analysis goes
\* on to the next line.
C16_RemainingLinesStillRun ==
    \A l \in 1..(NumLines - 1) : (pc = "failed" /\ line = l) ~> (line = l + 1)

\* C22: drop_na runs on the table the feature computation returned, the
\* negative-ratio filter and then fit_model on what drop_na returned; drop_na
\* removes every row whose ratio is not finite and no other row, so the table
\* fit_model starts on has only finite ratios.
C22_NoNonFiniteRatioAtSmoothing ==
    [][/\ pc' = "no_na" =>
            /\ pc = "features"
            /\ vcf_df' = SelectSeq(vcf_df, LAMBDA r : IsFinite(r.ratio))
       /\ pc' = "filtered" => pc = "no_na"
       /\ pc = "filtered" =>
            /\ pc' \in {"smoothed", "failed"}
            /\ \A i \in 1..Len(vcf_df) : IsFinite(vcf_df[i].ratio)]_vars

\* drop_na has removed the middle row of three, a site with no reads, and
\* kept its neighbours
C22_Witness ==
    /\ pc = "no_na"
    /\ Column(vcf_df, "idx") = <<0, 2>>
    /\ \A i \in 1..Len(vcf_df) : IsFinite(vcf_df[i].ratio)

(***************************************************************************)
(* fit_model on tables that have not been through drop_na: up to MaxRows   *)
(* rows on one or two chromosomes, some of them sites with no reads, whose *)
(* ratio and RS_G are nan.                                                 *)
(***************************************************************************)
UnreadSite == <<0, 0, 0, 0>>

InitUnfiltered ==
    /\ \E len \in 1..MaxRows :
        \E split \in 1..len, site \in [1..len -> {UnreadSite, EdgeSite}] :
            vcf_df = [i \in 1..len |->
                        WithFeatures(SortedTable(len, split, [j \in 1..len |-> 1], site)[i])]
    /\ pc = "filtered"
    /\ np_errmode = "ignore"
    /\ smooth_edges_bounds \in 1..MaxEdge
    /\ loess_span = [num |-> 1, den |-> 1]
    /\ n = 0
    /\ frac = [num |-> 1, den |-> 1]
    /\ args = <<>>
    /\ results = <<>>
    /\ pools = <<>>
    /\ cutoffs = <<>>
    /\ shuffle_iterations = 1
    /\ start_method = "fork"
    /\ workers = <<>>
    /\ streams = <<>>
    /\ lines = <<"line_1">>
    /\ line = 1
    /\ likely_cands = <<>>
    /\ failure = NoFailure

NextUnfiltered == fit_model

SpecUnfiltered == InitUnfiltered /\ [][NextUnfiltered]_vars

\* the numbers that stand in the reported message
NumbersReported(f) == {f.e.values, f.e.index}

\* C21: when the smoothing of a chromosome facet has failed, the message that
\* was reported has in it the id of the chromosome and the number of rows of
\* its facet.
C21_FailureNamesChromAndFacetSize ==
    (pc = "failed" /\ "chr" \in DOMAIN failure) =>
        /\ failure.chr \in Range(Column(vcf_df, "chrom"))
        /\ \E i \in 1..Len(Facet(vcf_df, failure.chr)) :
                ~IsFinite(Facet(vcf_df, failure.chr)[i].ratio)
        /\ Len(Facet(vcf_df, failure.chr)) \in NumbersReported(failure)

====
